---- MODULE Spec2Model ----
(***************************************************************************)
(* Model of the service-area eligibility page (src/routes/+page.svelte):   *)
(* the component state (address, distance, error, userCoords), the Mapbox  *)
(* map it drives (sources, layers, camera), the asynchronous handler       *)
(* checkEligibility with its two await points, and createRadiusCircle.     *)
(*                                                                         *)
(* Units.  Coordinates are integers in hundredths of a degree; a geocoder  *)
(* pair is <<lng, lat>>, a calculateDistance argument is <<lat, lng>>.     *)
(* Distances are integers in tenths of a mile.  Polygon vertices are in    *)
(* 1e-5 degree.  null is the empty sequence, a present value v is <<v>>    *)
(* (distance) or the pair itself (userCoords, marker).                     *)
(***************************************************************************)
EXTENDS Integers, Sequences, FiniteSets

VARIABLES
    serviceRadius,   \* STORE_CONFIG.serviceRadius as written in the configuration (miles)
    configState,     \* "unloaded" | "loaded" | "fatal"   ($lib/config module evaluation)
    mapState,        \* "none" | "created" | "loaded"     (map variable, style load)
    sources,         \* ids of the sources of the map style
    layers,          \* ids of the layers of the map style
    radiusPolygon,   \* ring of the 'radius' source (<<>> until added)
    markerCoords,    \* coordinates of the 'user-marker' source (<<>> when absent)
    storeMarker,     \* position of the store's Marker (<<>> before it is added)
    bounds,          \* points the camera shows: the center, then the last fitBounds
    address,         \* bound value of the address input
    distance,        \* <<>> (null) or <<tenths of a mile>>
    error,           \* '' or the error message
    userCoords,      \* <<>> (null) or <<lng, lat>>
    subs,            \* one record per call of checkEligibility, in call order: its
                     \* address, its stage ("fetch", "json", then "ok" or what threw:
                     \* "failed", "notFound", "mapError"), and the
                     \* arguments of its calls of calculateDistance and updateMap
    lastDone,        \* index in subs of the call whose handler finished last (0: none)
    dupAdd           \* TRUE once addSource/addLayer was called with an id still present

vars == <<serviceRadius, configState, mapState, sources, layers, radiusPolygon,
          markerCoords, storeMarker, bounds, address, distance, error, userCoords, subs,
          lastDone, dupAdd>>

\* ------------------------------------------------------------------ bounds
MaxSubmissions == 2

\* ------------------------------------------------------------ configuration
\* Radii a configuration file may state, valid and invalid.
Radii == {-5, 0, 25, 40}

\* STORE_CONFIG.coordinates, [lat, lng] (Canton, GA).
StoreCoordinates == <<3410, -8450>>

validateConfig_NoCheck(radius) == TRUE
\* radiusMiles > 0, checked when the configuration is loaded.
validateConfig(radius) == radius > 0

\* ------------------------------------------------------------- arithmetic
\* Floor of the square root, by bisection on the binary digits.
RECURSIVE isqrt(_)
isqrt(n) ==
    IF n < 2 THEN n
    ELSE LET s == 2 * isqrt(n \div 4)
         IN  IF (s + 1) * (s + 1) <= n THEN s + 1 ELSE s

\* 10 * sqrt(n), to the precision the integer width leaves.
sqrt10(n) == IF n < 20000000 THEN isqrt(100 * n) ELSE 10 * isqrt(n)

abs(x) == IF x < 0 THEN -x ELSE x

\* 1000 * cos of 0, 5, ..., 90 degrees.
CosTable == <<1000, 996, 985, 966, 940, 906, 866, 819, 766, 707,
              643, 574, 500, 423, 342, 259, 174, 87, 0>>

\* 1000 * Math.cos of an angle that is a multiple of 5 degrees.
cos1000(deg) ==
    LET d == deg % 360
    IN  IF d <= 90 THEN CosTable[d \div 5 + 1]
        ELSE IF d <= 180 THEN -CosTable[(180 - d) \div 5 + 1]
        ELSE IF d <= 270 THEN -CosTable[(d - 180) \div 5 + 1]
        ELSE CosTable[(360 - d) \div 5 + 1]

\* 1000 * Math.sin of an angle that is a multiple of 5 degrees.
sin1000(deg) == cos1000(deg - 90)

\* ------------------------------------------------------ $lib/distanceCalculator
\* Miles per hundred degrees of arc on a sphere of radius 3958.8 miles
\* (3958.8 * pi / 180 = 69.09).
MilesPer100Deg == 6909

\* 1000 * cos(latitude), latitude in hundredths of a degree, taken at the
\* nearest multiple of 5 degrees.
cosLat(lat) == cos1000(((abs(lat) + 250) \div 500) * 5)

\* Great-circle distance of a and b, both <<lat, lng>>, in tenths of a mile:
\* the haversine formula h = sin^2(dLat/2) + cos(lat_a) cos(lat_b) sin^2(dLon/2),
\* c = 2 atan2(sqrt h, sqrt(1-h)), d = R c, in its small-angle form
\* d = R sqrt(dLat^2 + cos(lat_a) cos(lat_b) dLon^2).
calculateDistance(a, b) ==
    LET dLat == abs(b[1] - a[1])
        dLon == abs(b[2] - a[2])
        h    == dLat * dLat
                + ((dLon * cosLat(a[1])) \div 1000) * ((dLon * cosLat(b[1])) \div 1000)
    IN  (MilesPer100Deg * sqrt10(h)) \div 10000

\* ------------------------------------------------------------ the geocoder
\* Addresses the user may type, and the features the geocoding service knows
\* for each: a sequence of <<lng, lat>> pairs, best match first.
Addresses == {"edge", "far", "nowhere"}

Geocode(addr) ==
    CASE addr = "edge"    -> << <<-8445, 3446>>, <<-8000, 3300>> >>
      [] addr = "far"     -> << <<-8450, 3455>> >>
      [] OTHER            -> << >>

\* --------------------------------------------------------- createRadiusCircle
MilesPerDegree == 69
CircleStep == 5
FullCircle == 360

\* Line 142: radius = STORE_CONFIG.serviceRadius / 69, in 1e-5 degree.
circleRadius(radius) == (radius * 100000) \div MilesPerDegree

\* Lines 141, 146-149: the vertex at angle i, <<lng, lat>> in 1e-5 degree.
circleVertex(radius, i) ==
    LET center == <<StoreCoordinates[2], StoreCoordinates[1]>>
        r      == circleRadius(radius)
    IN  << center[1] * 1000 + (r * cos1000(i)) \div 1000,
           center[2] * 1000 + (r * sin1000(i)) \div 1000 >>

loopCond_Inclusive(i) == i <= FullCircle
\* Line 144: the loop condition i < 360.
loopCond(i) == i < FullCircle

\* Lines 144-150: the loop, from counter i with the points pushed so far.
RECURSIVE circleLoop(_, _, _)
circleLoop(radius, i, points) ==
    IF loopCond(i)
    THEN circleLoop(radius, i + CircleStep, Append(points, circleVertex(radius, i)))
    ELSE points

createRadiusCircle(radius) == circleLoop(radius, 0, << >>)

\* ------------------------------------------------------------- the template
TemplateRadius == 25
ErrorMessage == "Could not validate address. Please try again."

\* Lines 253-254: distance <= 25 selects "We service your area!".
shownWithinService(d) == d <= TemplateRadius * 10

\* --------------------------------------------------------- checkEligibility
\* Lines 36 and 55: the store as (lat, lng) for the distance, [lng, lat] for the map.
centerLatLng_Swapped == <<StoreCoordinates[2], StoreCoordinates[1]>>
centerLatLng == <<StoreCoordinates[1], StoreCoordinates[2]>>
storeLngLat == <<StoreCoordinates[2], StoreCoordinates[1]>>

\* Line 30: !data.features.length
notFound(features) == Len(features) = 0

firstCandidate_Last(features) == features[Len(features)]
\* Line 32: data.features[0].geometry.coordinates, [lng, lat]
firstCandidate(features) == features[1]

candidateLatLng_NoFlip(coords) == <<coords[1], coords[2]>>
\* Line 37: [userCoords[1], userCoords[0]]
candidateLatLng(coords) == <<coords[2], coords[1]>>

successError_Keep(e) == e
\* Line 42: error = ''
successError(e) == ""

catchError_Keep(e) == e
\* Line 44: error = 'Could not validate address. Please try again.'
catchError(e) == ErrorMessage

catchDistance_Keep(d) == d
\* Line 45: distance = null
catchDistance(d) == << >>

\* ------------------------------------------------------------------ updateMap
UserMarker == "user-marker"

removeLayerIfPresent_Skip(ls) == ls
\* Line 105: if (map.getLayer('user-marker')) map.removeLayer('user-marker')
removeLayerIfPresent(ls) == ls \ {UserMarker}

\* Line 106: if (map.getSource('user-marker')) map.removeSource('user-marker');
\* the style refuses to remove a source a layer still uses.
removeSourceIfPresent(ss, ls) == IF UserMarker \in ls THEN ss ELSE ss \ {UserMarker}

\* Lines 103-136 on a map in state st with sources ss, layers ls, marker data
\* mk and camera cam: the map afterwards, whether the call threw, and whether
\* addSource or addLayer was called with an id still present.
updateMap(st, ss, ls, mk, cam, coords) ==
    LET ls1 == removeLayerIfPresent(ls)
        ss1 == removeSourceIfPresent(ss, ls1)
        mk1 == IF UserMarker \in ss1 THEN mk ELSE << >>
    IN  IF st # "loaded"
        THEN \* addSource: "Style is not done loading"
             [sources |-> ss1, layers |-> ls1, marker |-> mk1, bounds |-> cam,
              threw |-> TRUE, dup |-> FALSE]
        ELSE IF UserMarker \in ss1
        THEN \* addSource: "There is already a source with this ID"
             [sources |-> ss1, layers |-> ls1, marker |-> mk1, bounds |-> cam,
              threw |-> TRUE, dup |-> TRUE]
        ELSE [sources |-> ss1 \cup {UserMarker},
              layers  |-> ls1 \cup {UserMarker},
              marker  |-> coords,
              bounds  |-> <<storeLngLat, coords>>,
              threw   |-> FALSE,
              dup     |-> UserMarker \in ls1]

\* ------------------------------------------------------------------- actions
Init ==
    /\ serviceRadius \in Radii
    /\ configState = "unloaded"
    /\ mapState = "none"
    /\ sources = {}
    /\ layers = {}
    /\ radiusPolygon = << >>
    /\ markerCoords = << >>
    /\ storeMarker = << >>
    /\ bounds = << >>
    /\ address = ""
    /\ distance = << >>
    /\ error = ""
    /\ userCoords = << >>
    /\ subs = << >>
    /\ lastDone = 0
    /\ dupAdd = FALSE

\* Evaluation of $lib/config when the page module imports it (line 6).
LoadConfig ==
    /\ configState = "unloaded"
    /\ configState' = IF validateConfig(serviceRadius) THEN "loaded" ELSE "fatal"
    /\ UNCHANGED <<serviceRadius, mapState, sources, layers, radiusPolygon,
                   markerCoords, storeMarker, bounds, address, distance, error,
                   userCoords, subs, lastDone, dupAdd>>

\* onMount -> initializeMap (lines 19-21, 49-65): the map and the store marker.
Mount ==
    /\ configState = "loaded"
    /\ mapState = "none"
    /\ mapState' = "created"
    /\ storeMarker' = storeLngLat
    /\ bounds' = <<storeLngLat>>
    /\ UNCHANGED <<serviceRadius, configState, sources, layers, radiusPolygon,
                   markerCoords, address, distance, error, userCoords, subs,
                   lastDone, dupAdd>>

\* The map's 'load' event (lines 79-100): the radius source and its fill layer.
MapLoad ==
    /\ mapState = "created"
    /\ mapState' = "loaded"
    /\ sources' = sources \cup {"radius"}
    /\ radiusPolygon' = createRadiusCircle(serviceRadius)
    /\ layers' = layers \cup {"radius-fill"}
    /\ UNCHANGED <<serviceRadius, configState, markerCoords, storeMarker, bounds,
                   address, distance, error, userCoords, subs, lastDone, dupAdd>>

\* bind:value={address} (line 232).
TypeAddress(a) ==
    /\ mapState # "none"
    /\ address' = a
    /\ UNCHANGED <<serviceRadius, configState, mapState, sources, layers,
                   radiusPolygon, markerCoords, storeMarker, bounds, distance,
                   error, userCoords, subs, lastDone, dupAdd>>

\* on:submit (line 169) -> checkEligibility up to its first await (lines 23-28):
\* the request is built from the address as it is now.
Submit ==
    /\ mapState # "none"
    /\ address # ""
    /\ Len(subs) < MaxSubmissions
    /\ subs' = Append(subs, [address |-> address, stage |-> "fetch",
                             calcLog |-> << >>, mapLog |-> << >>])
    /\ UNCHANGED <<serviceRadius, configState, mapState, sources, layers,
                   radiusPolygon, markerCoords, storeMarker, bounds, address,
                   distance, error, userCoords, lastDone, dupAdd>>

\* fetch resolves (line 26); the handler goes on to await response.json() (line 29).
FetchResolve(i) ==
    /\ subs[i].stage = "fetch"
    /\ subs' = [subs EXCEPT ![i].stage = "json"]
    /\ UNCHANGED <<serviceRadius, configState, mapState, sources, layers,
                   radiusPolygon, markerCoords, storeMarker, bounds, address,
                   distance, error, userCoords, lastDone, dupAdd>>

\* The catch block (lines 43-46) of call i, nothing of the try block's
\* assignments having run; why records what threw.
Catch(i, why) ==
    /\ error' = catchError(error)
    /\ distance' = catchDistance(distance)
    /\ subs' = [subs EXCEPT ![i].stage = why]
    /\ lastDone' = i
    /\ UNCHANGED <<serviceRadius, configState, mapState, sources, layers,
                   radiusPolygon, markerCoords, storeMarker, bounds, address,
                   userCoords, dupAdd>>

\* fetch rejects (network failure).
FetchReject(i) ==
    /\ subs[i].stage = "fetch"
    /\ Catch(i, "failed")

\* response.json() rejects (the body is not JSON).
JsonReject(i) ==
    /\ subs[i].stage = "json"
    /\ Catch(i, "failed")

\* response.json() resolves and the handler runs to its end (lines 29-46).
\* wellFormed: the body has a features array (an error body has none, and
\* data.features.length throws).
JsonResolve(i, wellFormed) ==
    /\ subs[i].stage = "json"
    /\ LET features == Geocode(subs[i].address)
       IN  IF ~wellFormed \/ notFound(features)
           THEN Catch(i, IF wellFormed THEN "notFound" ELSE "failed")
           ELSE LET coords == firstCandidate(features)
                    center == centerLatLng
                    cand   == candidateLatLng(coords)
                    d      == <<calculateDistance(center, cand)>>
                    m      == updateMap(mapState, sources, layers, markerCoords,
                                        bounds, coords)
                IN  /\ userCoords' = coords
                    /\ sources' = m.sources
                    /\ layers' = m.layers
                    /\ markerCoords' = m.marker
                    /\ bounds' = m.bounds
                    /\ dupAdd' = (dupAdd \/ m.dup)
                    /\ distance' = IF m.threw THEN catchDistance(d) ELSE d
                    /\ error' = IF m.threw THEN catchError(error) ELSE successError(error)
                    /\ subs' = [subs EXCEPT
                                  ![i].stage = IF m.threw THEN "mapError" ELSE "ok",
                                  ![i].calcLog = Append(@, [center |-> center, cand |-> cand]),
                                  ![i].mapLog = Append(@, coords)]
                    /\ lastDone' = i
                    /\ UNCHANGED <<serviceRadius, configState, mapState,
                                   radiusPolygon, storeMarker, address>>

Next ==
    \/ LoadConfig
    \/ Mount
    \/ MapLoad
    \/ \E a \in Addresses : TypeAddress(a)
    \/ Submit
    \/ \E i \in 1..Len(subs) : FetchResolve(i)
    \/ \E i \in 1..Len(subs) : FetchReject(i)
    \/ \E i \in 1..Len(subs) : JsonReject(i)
    \/ \E i \in 1..Len(subs), wellFormed \in BOOLEAN : JsonResolve(i, wellFormed)

Spec == Init /\ [][Next]_vars

\* ------------------------------------------------------------------- claims
inFlight(i) == subs[i].stage \in {"fetch", "json"}
Calls == 1..Len(subs)
\* The first feature of the response to call i, [lng, lat].
respCoords(i) == Geocode(subs[i].address)[1]
\* The store as (lat, lng) and a [lng, lat] pair as (lat, lng), written out.
StoreLatLng == <<StoreCoordinates[1], StoreCoordinates[2]>>
asLatLng(c) == <<c[2], c[1]>>

\* C1: after every successful query the verdict shown is 'within service'
\* exactly when the distance is at most the configured service radius, the
\* radius createRadiusCircle draws.
C1_VerdictUsesConfiguredRadius ==
    (error = "" /\ distance # << >>) =>
        (shownWithinService(distance[1]) <=> distance[1] <= serviceRadius * 10)

\* C2: a call whose geocode response has no candidate never invokes
\* calculateDistance or updateMap, and when its handler has finished the
\* error message is set and distance is null.
C2_EmptyResultNeverEvaluated ==
    \A i \in Calls :
        Geocode(subs[i].address) = << >> =>
            /\ subs[i].calcLog = << >>
            /\ subs[i].mapLog = << >>
            /\ subs[i].stage # "ok"
            /\ (lastDone = i => error # "" /\ distance = << >>)

C2_Witness ==
    \E i, j \in Calls :
        /\ subs[j].stage = "ok"
        /\ subs[i].stage = "notFound"
        /\ lastDone = i

\* C3: every call of calculateDistance gets the center as
\* (coordinates[0], coordinates[1]) and the candidate as (coords[1], coords[0])
\* of the first [lng, lat] pair of the response, and updateMap gets that pair
\* unflipped.
C3_FlipAppliedOnce ==
    \A i \in Calls :
        /\ \A k \in 1..Len(subs[i].calcLog) :
              /\ subs[i].calcLog[k].center = StoreLatLng
              /\ subs[i].calcLog[k].cand = asLatLng(respCoords(i))
        /\ \A k \in 1..Len(subs[i].mapLog) : subs[i].mapLog[k] = respCoords(i)

C3_Witness ==
    \E i \in Calls :
        /\ subs[i].stage = "ok"
        /\ Len(subs[i].calcLog) = 1
        /\ Len(subs[i].mapLog) = 1
        /\ subs[i].calcLog[1].cand # subs[i].mapLog[1]

\* C4: the handler that finishes last decides what is shown, whatever the
\* order of the submissions: once it has succeeded, distance, userCoords and the
\* marker are those of its own response, also when a later submission has
\* already been answered.
C4_LastResponseWins ==
    (lastDone # 0 /\ subs[lastDone].stage = "ok") =>
        /\ userCoords = respCoords(lastDone)
        /\ markerCoords = respCoords(lastDone)
        /\ distance = <<calculateDistance(StoreLatLng, asLatLng(respCoords(lastDone)))>>

\* No lookup in flight, and what is shown comes from the earlier of two
\* answered submissions, not from the address submitted last.
C4_Witness ==
    /\ Len(subs) = 2
    /\ \A i \in Calls : ~inFlight(i)
    /\ subs[1].stage = "ok" /\ subs[2].stage = "ok"
    /\ subs[1].address # subs[2].address
    /\ address = subs[2].address
    /\ userCoords = respCoords(1) /\ userCoords # respCoords(2)
    /\ markerCoords = respCoords(1)
    /\ distance = <<calculateDistance(StoreLatLng, asLatLng(respCoords(1)))>>
    /\ distance # <<calculateDistance(StoreLatLng, asLatLng(respCoords(2)))>>

\* C5: createRadiusCircle returns 72 vertices, the k-th at angle 5 (k - 1)
\* degrees, each different from the next, the last one at 355 degrees and not
\* a repetition of the first.
C5_SeventyTwoVertices ==
    mapState = "loaded" =>
        /\ "radius" \in sources
        /\ Len(radiusPolygon) = 72
        /\ \A k \in 1..Len(radiusPolygon) :
              radiusPolygon[k] = circleVertex(serviceRadius, 5 * (k - 1))
        /\ \A k \in 1..(Len(radiusPolygon) - 1) :
              radiusPolygon[k] # radiusPolygon[k + 1]
        /\ radiusPolygon[Len(radiusPolygon)] # radiusPolygon[1]

C5_Witness ==
    /\ mapState = "loaded"
    /\ serviceRadius # TemplateRadius
    /\ Len(radiusPolygon) = 72
    /\ radiusPolygon[72] = circleVertex(serviceRadius, 355)

\* C6: calculateDistance is invoked for a call only once its own response
\* has arrived, at most once, and with the first candidate of that response.
C6_DistanceAfterOwnResponse ==
    \A i \in Calls :
        /\ inFlight(i) => subs[i].calcLog = << >>
        /\ Len(subs[i].calcLog) <= 1
        /\ subs[i].calcLog # << >> =>
              /\ Geocode(subs[i].address) # << >>
              /\ subs[i].calcLog[1].cand = asLatLng(Geocode(subs[i].address)[1])

C6_Witness ==
    \E i, j \in Calls :
        /\ i < j
        /\ subs[i].stage = "ok" /\ subs[j].stage = "ok"
        /\ Len(Geocode(subs[i].address)) > 1
        /\ subs[j].address # subs[i].address
        /\ lastDone = i

\* C7: a configuration with a service radius <= 0 is rejected when it is
\* loaded: the page is never mounted, no polygon is generated and no query is
\* evaluated.
C7_NonPositiveRadiusRejected ==
    serviceRadius <= 0 =>
        /\ configState # "loaded"
        /\ mapState = "none"
        /\ radiusPolygon = << >>
        /\ subs = << >>
        /\ distance = << >>

C7_Witness == serviceRadius <= 0 /\ configState = "fatal"

\* C8: whenever distance is not null it is the distance of the current
\* userCoords, and the user marker is on the map at userCoords.
C8_DistanceCoordsMarkerAgree ==
    distance # << >> =>
        /\ userCoords # << >>
        /\ distance = <<calculateDistance(StoreLatLng, asLatLng(userCoords))>>
        /\ markerCoords = userCoords
        /\ UserMarker \in sources
        /\ UserMarker \in layers

C8_Witness ==
    /\ distance # << >>
    /\ \E i, j \in Calls :
          /\ subs[i].stage = "mapError"
          /\ subs[j].stage = "ok"
          /\ subs[i].address # subs[j].address

\* C9: error and distance are never both set; after a handler has failed
\* error is set and distance is null, after it has succeeded error is '' and
\* distance is not null.
C9_ErrorXorDistance ==
    /\ ~(error # "" /\ distance # << >>)
    /\ lastDone # 0 =>
          IF subs[lastDone].stage = "ok"
          THEN error = "" /\ distance # << >>
          ELSE error # "" /\ distance = << >>

C9_Witness ==
    /\ lastDone # 0
    /\ subs[lastDone].stage = "ok"
    /\ \E j \in Calls : subs[j].stage \in {"failed", "notFound", "mapError"}
    /\ error = "" /\ distance # << >>

\* C10: updateMap never calls addSource or addLayer with 'user-marker'
\* while that id is present, the map holds the marker's source exactly when
\* it holds marker data, and after a completed call the marker is at the
\* coordinates passed to it.
C10_SingleUserMarker ==
    /\ ~dupAdd
    /\ (UserMarker \in sources) <=> (markerCoords # << >>)
    /\ UserMarker \in layers => UserMarker \in sources
    /\ (lastDone # 0 /\ subs[lastDone].stage = "ok") =>
          /\ UserMarker \in sources /\ UserMarker \in layers
          /\ markerCoords = subs[lastDone].mapLog[1]

C10_Witness ==
    \E i, j \in Calls :
        /\ i # j
        /\ subs[i].stage = "ok" /\ subs[j].stage = "ok"
        /\ subs[i].mapLog # subs[j].mapLog
        /\ lastDone = j
        /\ markerCoords = subs[j].mapLog[1]
        /\ ~dupAdd

====
